---- MODULE Spec2Model ----
(***************************************************************************)
(* A model of the client-side architecture state store (networkStore.ts)   *)
(* of the neural-network visualizer, together with the template registry   *)
(* it reads (curriculum.ts) and the training-simulation effect that drives *)
(* it (RightPanel.tsx).                                                    *)
(*                                                                         *)
(* Representation notes                                                    *)
(*  - a JavaScript array is a TLA+ sequence, so array index i is sequence  *)
(*    index i+1;                                                           *)
(*  - an optional value (undefined | v, null | v) is the empty sequence    *)
(*    or the one-element sequence <<v>>;                                   *)
(*  - a params object is a function from key strings to values;            *)
(*  - a non-integer number n/d is the pair <<n, d>>;                       *)
(*  - layer coordinates are kept in units of 1/2, because the layout puts  *)
(*    layers on half-integer x coordinates;                                *)
(*  - the string `layer_<ms>_<random>` is the tuple <<"layer", ms, r>> and *)
(*    the string `conn_<a>_<b>` the tuple <<"conn", a, b>>.                *)
(***************************************************************************)
EXTENDS Integers, Sequences, FiniteSets, TLC

VARIABLES currentArchitecture, layers, connections, training, config,
          visualization, ui, now, ops, last, before, calls, held

storeVars == <<currentArchitecture, layers, connections, training, config,
               visualization, ui>>
vars == <<currentArchitecture, layers, connections, training, config,
          visualization, ui, now, ops, last, before, calls, held>>

\* the state tree get() returns
StoreState ==
  [currentArchitecture |-> currentArchitecture, layers |-> layers,
   connections |-> connections, training |-> training, config |-> config,
   visualization |-> visualization, ui |-> ui]

(***************************************************************************)
(* Bounds of the exploration                                               *)
(***************************************************************************)
\* number of store actions in one explored history of the structural specs
MaxOps == 2
\* Math.random() takes the values 0/RandDen .. (RandDen-1)/RandDen
RandDen == 32
\* number of Math.random() streams an action may meet
MaxStreams == 2
\* Date.now() takes the values 0 .. MaxTime
MaxTime == 1
\* number of updateTrainingProgress calls made directly after one reset
MaxCalls == 4

(***************************************************************************)
(* Optional values and params objects                                      *)
(***************************************************************************)
Undefined == <<>>
Null == <<>>
Some(v) == <<v>>
Dec(n, d) == <<n, d>>
EmptyParams == [k \in {} |-> 0]

\* { ...a, ...b }
Spread(a, b) ==
  [k \in (DOMAIN a) \cup (DOMAIN b) |-> IF k \in DOMAIN b THEN b[k] ELSE a[k]]

\* { ...a, ...b } where b may be undefined
SpreadOpt(a, b) == IF b = Undefined THEN a ELSE Spread(a, b[1])

\* params.units / params?.units: undefined when the key is absent
UnitsOf(p) == IF "units" \in DOMAIN p THEN Some(p["units"]) ELSE Undefined

\* JavaScript truthiness of an optional number (NaN does not occur here)
Truthy(o) == o # Undefined /\ o[1] # 0

(***************************************************************************)
(* curriculum.ts: layer types and the template registry                    *)
(***************************************************************************)
LayerType == {"input", "dense", "conv2d", "maxpool2d", "avgpool2d", "flatten",
              "dropout", "batchnorm", "lstm", "gru", "embedding", "attention",
              "output"}

ArchitectureType == {"perceptron", "mlp", "cnn", "rnn", "autoencoder",
                     "transformer", "gan", "custom"}

LC(type, params) == [type |-> type, params |-> params]

architectureTemplates == <<
  [id |-> "perceptron", layers |-> <<
     LC("input", [shape |-> <<2>>]),
     LC("dense", [units |-> 1, activation |-> "sigmoid"]) >>],
  [id |-> "mlp", layers |-> <<
     LC("input", [shape |-> <<10>>]),
     LC("dense", [units |-> 64, activation |-> "relu"]),
     LC("dense", [units |-> 32, activation |-> "relu"]),
     LC("dense", [units |-> 1, activation |-> "sigmoid"]) >>],
  [id |-> "cnn", layers |-> <<
     LC("input", [shape |-> <<28, 28, 1>>]),
     LC("conv2d", [filters |-> 32, kernel_size |-> 3, activation |-> "relu"]),
     LC("maxpool2d", [pool_size |-> 2]),
     LC("conv2d", [filters |-> 64, kernel_size |-> 3, activation |-> "relu"]),
     LC("maxpool2d", [pool_size |-> 2]),
     LC("flatten", EmptyParams),
     LC("dense", [units |-> 128, activation |-> "relu"]),
     LC("dropout", [rate |-> Dec(5, 10)]),
     LC("dense", [units |-> 10, activation |-> "softmax"]) >>],
  [id |-> "rnn", layers |-> <<
     LC("input", [shape |-> <<100>>]),
     LC("embedding", [input_dim |-> 10000, output_dim |-> 128]),
     LC("lstm", [units |-> 64, return_sequences |-> TRUE]),
     LC("lstm", [units |-> 32, return_sequences |-> FALSE]),
     LC("dense", [units |-> 1, activation |-> "sigmoid"]) >>],
  [id |-> "autoencoder", layers |-> <<
     LC("input", [shape |-> <<784>>]),
     LC("dense", [units |-> 256, activation |-> "relu"]),
     LC("dense", [units |-> 64, activation |-> "relu"]),
     LC("dense", [units |-> 32, activation |-> "relu"]),
     LC("dense", [units |-> 64, activation |-> "relu"]),
     LC("dense", [units |-> 256, activation |-> "relu"]),
     LC("dense", [units |-> 784, activation |-> "sigmoid"]) >>],
  [id |-> "transformer", layers |-> <<
     LC("input", [shape |-> <<512>>]),
     LC("embedding", [input_dim |-> 30000, output_dim |-> 256]),
     LC("attention", [heads |-> 8, key_dim |-> 64]),
     LC("dense", [units |-> 512, activation |-> "relu"]),
     LC("attention", [heads |-> 8, key_dim |-> 64]),
     LC("dense", [units |-> 512, activation |-> "relu"]),
     LC("dense", [units |-> 30000, activation |-> "softmax"]) >>],
  [id |-> "gan", layers |-> <<
     LC("input", [shape |-> <<100>>]),
     LC("dense", [units |-> 256, activation |-> "relu"]),
     LC("batchnorm", [momentum |-> Dec(8, 10)]),
     LC("dense", [units |-> 512, activation |-> "relu"]),
     LC("batchnorm", [momentum |-> Dec(8, 10)]),
     LC("dense", [units |-> 1024, activation |-> "relu"]),
     LC("dense", [units |-> 784, activation |-> "tanh"]) >> ] >>

\* architectureTemplates.find(t => t.id === type): the first match, if any
FindTemplate(type) ==
  LET hits == {i \in DOMAIN architectureTemplates :
                 architectureTemplates[i].id = type}
  IN IF hits = {} THEN Undefined
     ELSE Some(architectureTemplates[CHOOSE i \in hits :
                                       \A j \in hits : i <= j])

(***************************************************************************)
(* networkStore.ts: helper functions                                       *)
(***************************************************************************)
\* ms is Date.now(), u the Math.random() draw (as u / RandDen); the suffix
\* Math.random().toString(36).substr(2, 9) is determined by the draw, and
\* the draws of this model differ in their first base-36 digits
generateLayerId(ms, u) == <<"layer", ms, u>>

getDefaultParams(type) ==
  CASE type = "dense"     -> [units |-> 64, activation |-> "relu"]
    [] type = "conv2d"    -> [filters |-> 32, kernel_size |-> 3, strides |-> 1,
                              padding |-> "same", activation |-> "relu"]
    [] type = "maxpool2d" -> [pool_size |-> 2, strides |-> 2]
    [] type = "avgpool2d" -> [pool_size |-> 2, strides |-> 2]
    [] type = "flatten"   -> EmptyParams
    [] type = "dropout"   -> [rate |-> Dec(5, 10)]
    [] type = "batchnorm" -> [momentum |-> Dec(99, 100)]
    [] type = "lstm"      -> [units |-> 128, return_sequences |-> FALSE]
    [] type = "gru"       -> [units |-> 128, return_sequences |-> FALSE]
    [] type = "embedding" -> [input_dim |-> 10000, output_dim |-> 128]
    [] type = "attention" -> [heads |-> 8, key_dim |-> 64]
    [] type = "input"     -> [shape |-> <<28, 28, 1>>]
    [] type = "output"    -> [units |-> 10, activation |-> "softmax"]
    [] OTHER              -> EmptyParams

getLayerName(type) ==
  CASE type = "input"     -> "Input"
    [] type = "dense"     -> "Dense"
    [] type = "conv2d"    -> "Conv2D"
    [] type = "maxpool2d" -> "MaxPool2D"
    [] type = "avgpool2d" -> "AvgPool2D"
    [] type = "flatten"   -> "Flatten"
    [] type = "dropout"   -> "Dropout"
    [] type = "batchnorm" -> "BatchNorm"
    [] type = "lstm"      -> "LSTM"
    [] type = "gru"       -> "GRU"
    [] type = "embedding" -> "Embedding"
    [] type = "attention" -> "Attention"
    [] type = "output"    -> "Output"
    [] OTHER              -> type

spacing == 3

\* index is the 0-based array index; the result is in units of 1/2
calculateLayerPosition(index, total) ==
  LET startX == -((total - 1) * spacing)
  IN [x |-> startX + 2 * index * spacing, y |-> 0, z |-> 0]

\* the rest of a Math.random() stream after n draws were consumed
Skip(rnd, n) == [i \in 1..(Len(rnd) - n) |-> rnd[i + n]]

\* Math.random() * 2 - 1 for Math.random() = u / RandDen, as <<num, den>>
randomWeight(u) == Dec(2 * u - RandDen, RandDen)

\* us[i] is the Math.random() draw of the i-th loop iteration
generateConnections(ls, us) ==
  [i \in 1..(IF Len(ls) = 0 THEN 0 ELSE Len(ls) - 1) |->
     [id         |-> <<"conn", ls[i].id, ls[i + 1].id>>,
      fromLayerId |-> ls[i].id,
      toLayerId   |-> ls[i + 1].id,
      weight      |-> randomWeight(us[i]),
      isActive    |-> FALSE]]

\* ms is Date.now() during the call, rs[i] the Math.random() draw of layer i
createLayersFromTemplate(template, ms, rs) ==
  [i \in 1..Len(template.layers) |->
     LET layerConfig == template.layers[i]
     IN [id       |-> generateLayerId(ms, rs[i]),
         type     |-> layerConfig.type,
         name     |-> getLayerName(layerConfig.type),
         params   |-> Spread(getDefaultParams(layerConfig.type),
                             layerConfig.params),
         position |-> calculateLayerPosition(i - 1, Len(template.layers)),
         neurons  |-> IF layerConfig.type = "dense"
                      THEN UnitsOf(layerConfig.params) ELSE Undefined]]

\* newLayers.forEach((layer, index) => layer.position = ...)
recalculatePositions(ls) ==
  [i \in 1..Len(ls) |->
     [ls[i] EXCEPT !.position = calculateLayerPosition(i - 1, Len(ls))]]

(***************************************************************************)
(* Environment inputs: Date.now() and Math.random()                        *)
(***************************************************************************)
\* the length of the longest registered template
MaxTemplateLen ==
  CHOOSE n \in {Len(architectureTemplates[i].layers) :
                 i \in DOMAIN architectureTemplates} :
    \A i \in DOMAIN architectureTemplates :
      Len(architectureTemplates[i].layers) <= n

Max(a, b) == IF a >= b THEN a ELSE b

\* the longest run of Math.random() calls of one store action: an id for
\* each layer of the longest list, then a weight for each connection
StreamLen == 2 * (MaxTemplateLen + MaxOps + 1)

\* the k-th stream of Math.random() results (numerators over RandDen): the
\* first k calls return the same value, later calls all differ
Stream(k) == [i \in 1..StreamLen |-> Max(i, k) % RandDen]

RandomStreams == {Stream(k) : k \in 1..MaxStreams}

(***************************************************************************)
(* networkStore.ts: initial state                                          *)
(***************************************************************************)
initialTemplate == FindTemplate("mlp")[1]

initialTraining ==
  [isTraining |-> FALSE, currentEpoch |-> 0, totalEpochs |-> 100,
   loss |-> Dec(0, 1), accuracy |-> Dec(0, 1),
   lossHistory |-> <<>>, accuracyHistory |-> <<>>]

initialConfig ==
  [learningRate |-> Dec(1, 1000), batchSize |-> 32, epochs |-> 100,
   optimizer |-> "adam", lossFunction |-> "categorical_crossentropy"]

initialVisualization ==
  [showDataFlow |-> TRUE, showWeights |-> FALSE, showGradients |-> FALSE,
   animationSpeed |-> 1, selectedLayerId |-> Null, hoveredLayerId |-> Null,
   viewMode |-> "3d", cameraPosition |-> [x |-> 0, y |-> 5, z |-> 15]]

initialUi ==
  [leftPanelOpen |-> TRUE, rightPanelOpen |-> TRUE,
   rightPanelTab |-> "parameters", isTourActive |-> FALSE,
   currentTourStep |-> 0, theme |-> "dark"]

Init ==
  \E rnd \in RandomStreams :
    LET initialLayers == createLayersFromTemplate(initialTemplate, 0, rnd)
    IN /\ currentArchitecture = "mlp"
       /\ layers = initialLayers
       /\ connections =
            generateConnections(initialLayers,
                                Skip(rnd, Len(initialTemplate.layers)))
       /\ training = initialTraining
       /\ config = initialConfig
       /\ visualization = initialVisualization
       /\ ui = initialUi
       /\ now = 0
       /\ ops = 0
       /\ last = [op |-> "init", args |-> <<>>]
       /\ before = [layers |-> layers, connections |-> connections,
                    last |-> last]
       /\ calls = 0
       /\ held = StoreState

(***************************************************************************)
(* networkStore.ts: architecture actions.  Each operator is one store      *)
(* action with its arguments and the environment draws it consumes.        *)
(***************************************************************************)
\* setArchitecture without the `if (template)` test around the type change
setArchitectureUnguarded(type, rnd) ==
  LET template == FindTemplate(type)
  IN /\ currentArchitecture' = type
     /\ IF template # Undefined
        THEN LET newLayers == createLayersFromTemplate(template[1], now, rnd)
             IN /\ layers' = newLayers
                /\ connections' =
                     generateConnections(newLayers, Skip(rnd, Len(newLayers)))
        ELSE UNCHANGED <<layers, connections>>
     /\ UNCHANGED <<training, config, visualization, ui>>
     /\ last' = [op |-> "setArchitecture", args |-> <<type>>]

\* rnd is the stream of Math.random() results the action consumes
setArchitecture(type, rnd) ==
  LET template == FindTemplate(type)
  IN /\ IF template # Undefined
        THEN LET newLayers == createLayersFromTemplate(template[1], now, rnd)
             IN /\ currentArchitecture' = type
                /\ layers' = newLayers
                /\ connections' =
                     generateConnections(newLayers, Skip(rnd, Len(newLayers)))
        ELSE UNCHANGED <<currentArchitecture, layers, connections>>
     /\ UNCHANGED <<training, config, visualization, ui>>
     /\ last' = [op |-> "setArchitecture", args |-> <<type>>]

loadTemplate(template, rnd) ==
  LET newLayers == createLayersFromTemplate(template, now, rnd)
  IN /\ currentArchitecture' = template.id
     /\ layers' = newLayers
     /\ connections' =
          generateConnections(newLayers, Skip(rnd, Len(newLayers)))
     /\ UNCHANGED <<training, config, visualization, ui>>
     /\ last' = [op |-> "loadTemplate", args |-> <<template.id>>]

\* addLayer without the forEach that recalculates the positions
addLayerNoRecalculation(type, params, rnd) ==
  LET newLayer ==
        [id       |-> generateLayerId(now, rnd[1]),
         type     |-> type,
         name     |-> getLayerName(type),
         params   |-> SpreadOpt(getDefaultParams(type), params),
         position |-> calculateLayerPosition(Len(layers), Len(layers) + 1),
         neurons  |-> IF type = "dense"
                      THEN (LET units == IF params = Undefined THEN Undefined
                                         ELSE UnitsOf(params[1])
                            IN IF Truthy(units) THEN units ELSE Some(64))
                      ELSE Undefined]
      newLayers == Append(layers, newLayer)
  IN /\ layers' = newLayers
     /\ connections' = generateConnections(newLayers, Skip(rnd, 1))
     /\ currentArchitecture' = "custom"
     /\ UNCHANGED <<training, config, visualization, ui>>
     /\ last' = [op |-> "addLayer", args |-> <<type, params>>]

\* addLayer with the spread written { ...params, ...getDefaultParams(type) }
addLayerDefaultsWin(type, params, rnd) ==
  LET newLayer ==
        [id       |-> generateLayerId(now, rnd[1]),
         type     |-> type,
         name     |-> getLayerName(type),
         params   |-> IF params = Undefined THEN getDefaultParams(type)
                      ELSE Spread(params[1], getDefaultParams(type)),
         position |-> calculateLayerPosition(Len(layers), Len(layers) + 1),
         neurons  |-> IF type = "dense"
                      THEN (LET units == IF params = Undefined THEN Undefined
                                         ELSE UnitsOf(params[1])
                            IN IF Truthy(units) THEN units ELSE Some(64))
                      ELSE Undefined]
      newLayers == recalculatePositions(Append(layers, newLayer))
  IN /\ layers' = newLayers
     /\ connections' = generateConnections(newLayers, Skip(rnd, 1))
     /\ currentArchitecture' = "custom"
     /\ UNCHANGED <<training, config, visualization, ui>>
     /\ last' = [op |-> "addLayer", args |-> <<type, params>>]

\* addLayer without the change of currentArchitecture
addLayerKeepsArchitecture(type, params, rnd) ==
  LET newLayer ==
        [id       |-> generateLayerId(now, rnd[1]),
         type     |-> type,
         name     |-> getLayerName(type),
         params   |-> SpreadOpt(getDefaultParams(type), params),
         position |-> calculateLayerPosition(Len(layers), Len(layers) + 1),
         neurons  |-> IF type = "dense"
                      THEN (LET units == IF params = Undefined THEN Undefined
                                         ELSE UnitsOf(params[1])
                            IN IF Truthy(units) THEN units ELSE Some(64))
                      ELSE Undefined]
      newLayers == recalculatePositions(Append(layers, newLayer))
  IN /\ layers' = newLayers
     /\ connections' = generateConnections(newLayers, Skip(rnd, 1))
     /\ UNCHANGED <<currentArchitecture, training, config, visualization, ui>>
     /\ last' = [op |-> "addLayer", args |-> <<type, params>>]

\* params is Undefined when the optional argument is omitted
addLayer(type, params, rnd) ==
  LET newLayer ==
        [id       |-> generateLayerId(now, rnd[1]),
         type     |-> type,
         name     |-> getLayerName(type),
         params   |-> SpreadOpt(getDefaultParams(type), params),
         position |-> calculateLayerPosition(Len(layers), Len(layers) + 1),
         neurons  |-> IF type = "dense"
                      THEN (LET units == IF params = Undefined THEN Undefined
                                         ELSE UnitsOf(params[1])
                            IN IF Truthy(units) THEN units ELSE Some(64))
                      ELSE Undefined]
      newLayers == recalculatePositions(Append(layers, newLayer))
  IN /\ layers' = newLayers
     /\ connections' = generateConnections(newLayers, Skip(rnd, 1))
     /\ currentArchitecture' = "custom"
     /\ UNCHANGED <<training, config, visualization, ui>>
     /\ last' = [op |-> "addLayer", args |-> <<type, params>>]

removeLayer(layerId, rnd) ==
  LET newLayers ==
        recalculatePositions(SelectSeq(layers, LAMBDA l : l.id # layerId))
  IN /\ layers' = newLayers
     /\ connections' = generateConnections(newLayers, rnd)
     /\ currentArchitecture' = "custom"
     /\ UNCHANGED <<training, config, visualization, ui>>
     /\ last' = [op |-> "removeLayer", args |-> <<layerId>>]

\* updateLayerParams with `params: params` in place of the spread
updateLayerParamsReplaces(layerId, params) ==
  /\ layers' =
       [i \in 1..Len(layers) |->
          LET layer == layers[i]
          IN IF layer.id = layerId
             THEN [layer EXCEPT
                     !.params = params,
                     !.neurons = IF Truthy(UnitsOf(params))
                                 THEN UnitsOf(params) ELSE layer.neurons]
             ELSE layer]
  /\ UNCHANGED <<currentArchitecture, connections, training, config,
                 visualization, ui>>
  /\ last' = [op |-> "updateLayerParams", args |-> <<layerId, params>>]

\* updateLayerParams ending like the structural edits, with
\* `currentArchitecture: 'custom'` in the object it sets
updateLayerParamsStructural(layerId, params) ==
  /\ layers' =
       [i \in 1..Len(layers) |->
          LET layer == layers[i]
          IN IF layer.id = layerId
             THEN [layer EXCEPT
                     !.params = Spread(layer.params, params),
                     !.neurons = IF Truthy(UnitsOf(params))
                                 THEN UnitsOf(params) ELSE layer.neurons]
             ELSE layer]
  /\ currentArchitecture' = "custom"
  /\ UNCHANGED <<connections, training, config, visualization, ui>>
  /\ last' = [op |-> "updateLayerParams", args |-> <<layerId, params>>]

updateLayerParams(layerId, params) ==
  /\ layers' =
       [i \in 1..Len(layers) |->
          LET layer == layers[i]
          IN IF layer.id = layerId
             THEN [layer EXCEPT
                     !.params = Spread(layer.params, params),
                     !.neurons = IF Truthy(UnitsOf(params))
                                 THEN UnitsOf(params) ELSE layer.neurons]
             ELSE layer]
  /\ UNCHANGED <<currentArchitecture, connections, training, config,
                 visualization, ui>>
  /\ last' = [op |-> "updateLayerParams", args |-> <<layerId, params>>]

\* Array.prototype.splice: a negative start counts from the end, a start
\* past the end is the end
actualStart(start, len) ==
  IF start < 0 THEN Max(len + start, 0)
  ELSE IF start > len THEN len ELSE start

\* Array.prototype.splice(start, 1) and splice(start, 0, item); fromIndex
\* and toIndex are 0-based
spliceOut(ls, fromIndex) ==
  LET a == actualStart(fromIndex, Len(ls))
  IN IF a >= Len(ls) THEN ls
     ELSE [i \in 1..(Len(ls) - 1) |-> IF i <= a THEN ls[i] ELSE ls[i + 1]]

\* const [removed] = newLayers.splice(fromIndex, 1): undefined when nothing
\* was removed
spliceRemoved(ls, fromIndex) ==
  LET a == actualStart(fromIndex, Len(ls))
  IN IF a >= Len(ls) THEN Undefined ELSE Some(ls[a + 1])

spliceIn(ls, toIndex, item) ==
  LET a == actualStart(toIndex, Len(ls))
  IN [i \in 1..(Len(ls) + 1) |->
        IF i <= a THEN ls[i]
        ELSE IF i = a + 1 THEN item ELSE ls[i - 1]]

\* The forEach of addLayer, removeLayer and reorderLayers assigns to
\* layer.position of the layer objects themselves, which the array read
\* before the call shares.  order[j] is the index in ls of the object at
\* index j of the new array (new objects left out), total the length of the
\* new array; the result is ls as it reads after the loop.
repositionedInPlace(ls, order, total) ==
  [i \in 1..Len(ls) |->
     IF \E j \in 1..Len(order) : order[j] = i
     THEN [ls[i] EXCEPT !.position =
             calculateLayerPosition(
               (CHOOSE j \in 1..Len(order) : order[j] = i) - 1, total)]
     ELSE ls[i]]

Indices(ls) == [i \in 1..Len(ls) |-> i]

\* the old array after addLayer's loop
afterAddLayer(ls) == repositionedInPlace(ls, Indices(ls), Len(ls) + 1)

\* the old array after removeLayer's loop over the filtered array
afterRemoveLayer(ls, layerId) ==
  LET kept == SelectSeq(Indices(ls), LAMBDA i : ls[i].id # layerId)
  IN repositionedInPlace(ls, kept, Len(kept))

\* the old array after reorderLayers' loop, which stops with a TypeError at
\* the undefined element when nothing was removed
afterReorderLayers(ls, fromIndex, toIndex) ==
  LET rest == spliceOut(Indices(ls), fromIndex)
      removed == spliceRemoved(Indices(ls), fromIndex)
  IN IF removed # Undefined
     THEN repositionedInPlace(ls, spliceIn(rest, toIndex, removed[1]),
                              Len(ls))
     ELSE repositionedInPlace(
            ls, SubSeq(rest, 1, actualStart(toIndex, Len(rest))),
            Len(ls) + 1)

\* reorderLayers without the regeneration of the connections
reorderLayersStaleConnections(fromIndex, toIndex, rnd) ==
  LET removed == layers[fromIndex + 1]
      newLayers ==
        recalculatePositions(spliceIn(spliceOut(layers, fromIndex),
                                      toIndex, removed))
  IN /\ layers' = newLayers
     /\ UNCHANGED <<connections, currentArchitecture, training, config,
                    visualization, ui>>
     /\ last' = [op |-> "reorderLayers", args |-> <<fromIndex, toIndex>>]

\* reorderLayers exchanging the two elements instead of moving one
reorderLayersSwap(fromIndex, toIndex, rnd) ==
  LET newLayers ==
        recalculatePositions(
          [i \in 1..Len(layers) |->
             IF i = fromIndex + 1 THEN layers[toIndex + 1]
             ELSE IF i = toIndex + 1 THEN layers[fromIndex + 1]
             ELSE layers[i]])
  IN /\ layers' = newLayers
     /\ connections' = generateConnections(newLayers, rnd)
     /\ UNCHANGED <<currentArchitecture, training, config, visualization, ui>>
     /\ last' = [op |-> "reorderLayers", args |-> <<fromIndex, toIndex>>]

\* reorderLayers inserting the copy first and removing at fromIndex afterwards
reorderLayersInsertFirst(fromIndex, toIndex, rnd) ==
  LET newLayers ==
        recalculatePositions(
          spliceOut(spliceIn(layers, toIndex, layers[fromIndex + 1]),
                    fromIndex))
  IN /\ layers' = newLayers
     /\ connections' = generateConnections(newLayers, rnd)
     /\ UNCHANGED <<currentArchitecture, training, config, visualization, ui>>
     /\ last' = [op |-> "reorderLayers", args |-> <<fromIndex, toIndex>>]

\* With nothing removed (fromIndex past the end) undefined is inserted, the
\* forEach throws at it and set() is not reached: the store keeps its array,
\* whose objects before the undefined element were repositioned.
reorderLayers(fromIndex, toIndex, rnd) ==
  LET removed == spliceRemoved(layers, fromIndex)
  IN /\ IF removed # Undefined
        THEN LET newLayers ==
                   recalculatePositions(
                     spliceIn(spliceOut(layers, fromIndex), toIndex,
                              removed[1]))
             IN /\ layers' = newLayers
                /\ connections' = generateConnections(newLayers, rnd)
        ELSE /\ layers' = afterReorderLayers(layers, fromIndex, toIndex)
             /\ connections' = connections
     /\ UNCHANGED <<currentArchitecture, training, config, visualization, ui>>
     /\ last' = [op |-> "reorderLayers", args |-> <<fromIndex, toIndex>>]

\* clearNetwork also dropping the selection and the hover
clearNetworkDeselects ==
  /\ layers' = <<>>
  /\ connections' = <<>>
  /\ currentArchitecture' = "custom"
  /\ visualization' = [visualization EXCEPT !.selectedLayerId = Null,
                                            !.hoveredLayerId = Null]
  /\ UNCHANGED <<training, config, ui>>
  /\ last' = [op |-> "clearNetwork", args |-> <<>>]

clearNetwork ==
  /\ layers' = <<>>
  /\ connections' = <<>>
  /\ currentArchitecture' = "custom"
  /\ UNCHANGED <<training, config, visualization, ui>>
  /\ last' = [op |-> "clearNetwork", args |-> <<>>]

(***************************************************************************)
(* networkStore.ts: visualization actions                                  *)
(***************************************************************************)
setSelectedLayer(layerId) ==
  /\ visualization' = [visualization EXCEPT !.selectedLayerId = layerId]
  /\ UNCHANGED <<currentArchitecture, layers, connections, training, config,
                 ui>>
  /\ last' = [op |-> "setSelectedLayer", args |-> <<layerId>>]

setHoveredLayer(layerId) ==
  /\ visualization' = [visualization EXCEPT !.hoveredLayerId = layerId]
  /\ UNCHANGED <<currentArchitecture, layers, connections, training, config,
                 ui>>
  /\ last' = [op |-> "setHoveredLayer", args |-> <<layerId>>]

toggleDataFlow ==
  /\ visualization' =
       [visualization EXCEPT !.showDataFlow = ~visualization.showDataFlow]
  /\ UNCHANGED <<currentArchitecture, layers, connections, training, config,
                 ui>>
  /\ last' = [op |-> "toggleDataFlow", args |-> <<>>]

\* toggleWeights written `showWeights: true`
toggleWeightsSwitchesOn ==
  /\ visualization' = [visualization EXCEPT !.showWeights = TRUE]
  /\ UNCHANGED <<currentArchitecture, layers, connections, training, config,
                 ui>>
  /\ last' = [op |-> "toggleWeights", args |-> <<>>]

toggleWeights ==
  /\ visualization' =
       [visualization EXCEPT !.showWeights = ~visualization.showWeights]
  /\ UNCHANGED <<currentArchitecture, layers, connections, training, config,
                 ui>>
  /\ last' = [op |-> "toggleWeights", args |-> <<>>]

toggleGradients ==
  /\ visualization' =
       [visualization EXCEPT !.showGradients = ~visualization.showGradients]
  /\ UNCHANGED <<currentArchitecture, layers, connections, training, config,
                 ui>>
  /\ last' = [op |-> "toggleGradients", args |-> <<>>]

(***************************************************************************)
(* networkStore.ts: UI actions                                             *)
(***************************************************************************)
toggleLeftPanel ==
  /\ ui' = [ui EXCEPT !.leftPanelOpen = ~ui.leftPanelOpen]
  /\ UNCHANGED <<currentArchitecture, layers, connections, training, config,
                 visualization>>
  /\ last' = [op |-> "toggleLeftPanel", args |-> <<>>]

toggleRightPanel ==
  /\ ui' = [ui EXCEPT !.rightPanelOpen = ~ui.rightPanelOpen]
  /\ UNCHANGED <<currentArchitecture, layers, connections, training, config,
                 visualization>>
  /\ last' = [op |-> "toggleRightPanel", args |-> <<>>]

startTour ==
  /\ ui' = [ui EXCEPT !.isTourActive = TRUE, !.currentTourStep = 0]
  /\ UNCHANGED <<currentArchitecture, layers, connections, training, config,
                 visualization>>
  /\ last' = [op |-> "startTour", args |-> <<>>]

nextTourStep ==
  /\ ui' = [ui EXCEPT !.currentTourStep = ui.currentTourStep + 1]
  /\ UNCHANGED <<currentArchitecture, layers, connections, training, config,
                 visualization>>
  /\ last' = [op |-> "nextTourStep", args |-> <<>>]

previousTourStep ==
  /\ ui' = [ui EXCEPT !.currentTourStep = Max(0, ui.currentTourStep - 1)]
  /\ UNCHANGED <<currentArchitecture, layers, connections, training, config,
                 visualization>>
  /\ last' = [op |-> "previousTourStep", args |-> <<>>]

endTour ==
  /\ ui' = [ui EXCEPT !.isTourActive = FALSE, !.currentTourStep = 0]
  /\ UNCHANGED <<currentArchitecture, layers, connections, training, config,
                 visualization>>
  /\ last' = [op |-> "endTour", args |-> <<>>]

(***************************************************************************)
(* networkStore.ts: training and config actions                            *)
(***************************************************************************)
startTraining ==
  /\ training' = [training EXCEPT !.isTraining = TRUE]
  /\ UNCHANGED <<currentArchitecture, layers, connections, config,
                 visualization, ui>>
  /\ last' = [op |-> "startTraining", args |-> <<>>]

\* stopTraining putting the epoch counter back to 0
stopTrainingRewinds ==
  /\ training' = [training EXCEPT !.isTraining = FALSE, !.currentEpoch = 0]
  /\ UNCHANGED <<currentArchitecture, layers, connections, config,
                 visualization, ui>>
  /\ last' = [op |-> "stopTraining", args |-> <<>>]

\* the TrainingState stopTraining leaves
stopped(t) == [t EXCEPT !.isTraining = FALSE]

stopTraining ==
  /\ training' = stopped(training)
  /\ UNCHANGED <<currentArchitecture, layers, connections, config,
                 visualization, ui>>
  /\ last' = [op |-> "stopTraining", args |-> <<>>]

\* the TrainingState resetTraining builds from the current config
zeroTraining(cfg) ==
  [isTraining |-> FALSE, currentEpoch |-> 0, totalEpochs |-> cfg.epochs,
   loss |-> Dec(0, 1), accuracy |-> Dec(0, 1),
   lossHistory |-> <<>>, accuracyHistory |-> <<>>]

\* resetTraining carrying the two histories over
resetTrainingKeepsHistories ==
  /\ training' =
       [zeroTraining(config) EXCEPT
          !.lossHistory = training.lossHistory,
          !.accuracyHistory = training.accuracyHistory]
  /\ UNCHANGED <<currentArchitecture, layers, connections, config,
                 visualization, ui>>
  /\ last' = [op |-> "resetTraining", args |-> <<>>]

resetTraining ==
  /\ training' = zeroTraining(config)
  /\ UNCHANGED <<currentArchitecture, layers, connections, config,
                 visualization, ui>>
  /\ last' = [op |-> "resetTraining", args |-> <<>>]

\* the TrainingState updateTrainingProgress leaves
progressed(t, epoch, loss, accuracy) ==
  [t EXCEPT !.currentEpoch = epoch,
            !.loss = loss,
            !.accuracy = accuracy,
            !.lossHistory = Append(t.lossHistory, loss),
            !.accuracyHistory = Append(t.accuracyHistory, accuracy)]

\* updateTrainingProgress dropping the calls whose epoch is past totalEpochs
updateTrainingProgressClamped(epoch, loss, accuracy) ==
  /\ training' = IF epoch > training.totalEpochs THEN training
                 ELSE progressed(training, epoch, loss, accuracy)
  /\ UNCHANGED <<currentArchitecture, layers, connections, config,
                 visualization, ui>>
  /\ last' = [op |-> "updateTrainingProgress",
              args |-> <<epoch, loss, accuracy>>]

updateTrainingProgress(epoch, loss, accuracy) ==
  /\ training' = progressed(training, epoch, loss, accuracy)
  /\ UNCHANGED <<currentArchitecture, layers, connections, config,
                 visualization, ui>>
  /\ last' = [op |-> "updateTrainingProgress",
              args |-> <<epoch, loss, accuracy>>]

\* updateConfig carrying a new epochs value over to training.totalEpochs
updateConfigLive(partial) ==
  /\ config' = Spread(config, partial)
  /\ training' = IF "epochs" \in DOMAIN partial
                 THEN [training EXCEPT !.totalEpochs = partial["epochs"]]
                 ELSE training
  /\ UNCHANGED <<currentArchitecture, layers, connections, visualization, ui>>
  /\ last' = [op |-> "updateConfig", args |-> <<partial>>]

updateConfig(partial) ==
  /\ config' = Spread(config, partial)
  /\ UNCHANGED <<currentArchitecture, layers, connections, training,
                 visualization, ui>>
  /\ last' = [op |-> "updateConfig", args |-> <<partial>>]

(***************************************************************************)
(* networkStore.ts: computed values.  Both read the state tree with get()  *)
(* and call no set().  A template literal is the sequence of its fixed     *)
(* texts and of the values it interpolates.                                *)
(***************************************************************************)
\* ${params.key}: the text "undefined" for an absent key
Interpolated(params, key) ==
  IF key \in DOMAIN params THEN params[key] ELSE "undefined"

\* ${params.return_sequences ? 'True' : 'False'}
PythonBool(params, key) ==
  IF key \in DOMAIN params /\ params[key] = TRUE THEN "True" ELSE "False"

layerCodeLine(layer) ==
  LET P(key) == Interpolated(layer.params, key)
  IN CASE layer.type = "input" ->
            <<"    layers.Input(shape=", P("shape"), ")">>
       [] layer.type = "dense" ->
            <<"    layers.Dense(", P("units"), ", activation='",
              P("activation"), "')">>
       [] layer.type = "conv2d" ->
            <<"    layers.Conv2D(", P("filters"), ", (", P("kernel_size"),
              ", ", P("kernel_size"), "), strides=(", P("strides"), ", ",
              P("strides"), "), padding='", P("padding"), "', activation='",
              P("activation"), "')">>
       [] layer.type = "maxpool2d" ->
            <<"    layers.MaxPooling2D(pool_size=(", P("pool_size"), ", ",
              P("pool_size"), "))">>
       [] layer.type = "avgpool2d" ->
            <<"    layers.AveragePooling2D(pool_size=(", P("pool_size"), ", ",
              P("pool_size"), "))">>
       [] layer.type = "flatten" -> <<"    layers.Flatten()">>
       [] layer.type = "dropout" ->
            <<"    layers.Dropout(", P("rate"), ")">>
       [] layer.type = "batchnorm" -> <<"    layers.BatchNormalization()">>
       [] layer.type = "lstm" ->
            <<"    layers.LSTM(", P("units"), ", return_sequences=",
              PythonBool(layer.params, "return_sequences"), ")">>
       [] layer.type = "gru" ->
            <<"    layers.GRU(", P("units"), ", return_sequences=",
              PythonBool(layer.params, "return_sequences"), ")">>
       [] layer.type = "embedding" ->
            <<"    layers.Embedding(input_dim=", P("input_dim"),
              ", output_dim=", P("output_dim"), ")">>
       [] layer.type = "attention" ->
            <<"    layers.MultiHeadAttention(num_heads=", P("heads"),
              ", key_dim=", P("key_dim"), ")">>
       [] OTHER -> <<"    # ", layer.name>>

optimizerName(optimizer) ==
  IF optimizer = "adam" THEN "Adam"
  ELSE IF optimizer = "sgd" THEN "SGD" ELSE "SGD(momentum=0.9)"

\* getGeneratedCode with the architecture name in a leading comment line
getGeneratedCodeTitled(state) ==
  <<"# ", state.currentArchitecture,
    "import tensorflow as tf ... models.Sequential([",
    [i \in 1..Len(state.layers) |-> layerCodeLine(state.layers[i])],
    "]) ... optimizer=tf.keras.optimizers.",
    optimizerName(state.config.optimizer),
    "(learning_rate=", state.config.learningRate,
    "), loss='", state.config.lossFunction,
    "', metrics=['accuracy']) ... epochs=", state.config.epochs,
    ", batch_size=", state.config.batchSize,
    ", validation_split=0.2)">>

\* the lines of layerCode are joined with ",\n"
getGeneratedCode(state) ==
  <<"import tensorflow as tf ... models.Sequential([",
    [i \in 1..Len(state.layers) |-> layerCodeLine(state.layers[i])],
    "]) ... optimizer=tf.keras.optimizers.",
    optimizerName(state.config.optimizer),
    "(learning_rate=", state.config.learningRate,
    "), loss='", state.config.lossFunction,
    "', metrics=['accuracy']) ... epochs=", state.config.epochs,
    ", batch_size=", state.config.batchSize,
    ", validation_split=0.2)">>

\* `let prevUnits = 784`
defaultInputSize == 784

\* the forEach of getTotalParameters from the layer at index i (1-based) on,
\* with the values total and prevUnits have before it.  Every dense layer has
\* params.units and every conv2d layer filters and kernel_size, because
\* getDefaultParams is merged into the params of every layer.
RECURSIVE totalParametersLoop(_, _, _, _)
totalParametersLoop(ls, i, total, prevUnits) ==
  IF i > Len(ls) THEN total
  ELSE LET layer == ls[i]
       IN CASE layer.type = "dense" ->
                 LET units == layer.params["units"]
                 IN totalParametersLoop(
                      ls, i + 1, total + (prevUnits * units + units), units)
            [] layer.type = "conv2d" ->
                 LET filters == layer.params["filters"]
                     kernelSize == layer.params["kernel_size"]
                 IN totalParametersLoop(
                      ls, i + 1,
                      total + (kernelSize * kernelSize * prevUnits * filters
                               + filters),
                      filters)
            [] OTHER -> totalParametersLoop(ls, i + 1, total, prevUnits)

\* the same loop with `prevUnits = units` and `prevUnits = filters` left out
RECURSIVE totalParametersFixedWidth(_, _, _, _)
totalParametersFixedWidth(ls, i, total, prevUnits) ==
  IF i > Len(ls) THEN total
  ELSE LET layer == ls[i]
       IN CASE layer.type = "dense" ->
                 LET units == layer.params["units"]
                 IN totalParametersFixedWidth(
                      ls, i + 1, total + (prevUnits * units + units),
                      prevUnits)
            [] layer.type = "conv2d" ->
                 LET filters == layer.params["filters"]
                     kernelSize == layer.params["kernel_size"]
                 IN totalParametersFixedWidth(
                      ls, i + 1,
                      total + (kernelSize * kernelSize * prevUnits * filters
                               + filters),
                      prevUnits)
            [] OTHER -> totalParametersFixedWidth(ls, i + 1, total, prevUnits)

\* getTotalParameters without the updates of prevUnits
getTotalParametersFixedWidth(state) ==
  totalParametersFixedWidth(state.layers, 1, 0, defaultInputSize)

getTotalParameters(state) ==
  totalParametersLoop(state.layers, 1, 0, defaultInputSize)

(***************************************************************************)
(* RightPanel.tsx: the training simulation effect.  The effect is re-run   *)
(* after every change of isTraining, currentEpoch or totalEpochs, so the   *)
(* interval callback that fires reads the training state of the store.     *)
(***************************************************************************)
\* the (loss, accuracy) pairs the simulated curves produce: the loss is at
\* least 0.01 and the accuracy lies in [0, 0.99]
TickSamples == {[loss |-> Dec(50, 100), accuracy |-> Dec(80, 100)]}

\* the interval callback without the `newEpoch > totalEpochs` test
trainingTickNoCeiling(sample) ==
  /\ training.isTraining
  /\ LET newEpoch == training.currentEpoch + 1
     IN /\ training' =
             progressed(training, newEpoch, sample.loss, sample.accuracy)
        /\ last' = [op |-> "trainingTick", args |-> <<newEpoch>>]
  /\ UNCHANGED <<currentArchitecture, layers, connections, config,
                 visualization, ui>>

\* the interval callback returning at the ceiling without stopTraining()
trainingTickNeverStops(sample) ==
  /\ training.isTraining
  /\ LET newEpoch == training.currentEpoch + 1
     IN /\ training' =
             IF newEpoch > training.totalEpochs
             THEN training
             ELSE progressed(training, newEpoch, sample.loss, sample.accuracy)
        /\ last' = [op |-> "trainingTick", args |-> <<newEpoch>>]
  /\ UNCHANGED <<currentArchitecture, layers, connections, config,
                 visualization, ui>>

trainingTick(sample) ==
  /\ training.isTraining
  /\ LET newEpoch == training.currentEpoch + 1
     IN /\ training' =
             IF newEpoch > training.totalEpochs
             THEN stopped(training)
             ELSE progressed(training, newEpoch, sample.loss, sample.accuracy)
        /\ last' = [op |-> "trainingTick", args |-> <<newEpoch>>]
  /\ UNCHANGED <<currentArchitecture, layers, connections, config,
                 visualization, ui>>

(***************************************************************************)
(* Callers of the structural actions: the arguments they may pass          *)
(***************************************************************************)
\* a template value handed to loadTemplate that is not in the registry
userTemplate ==
  [id |-> "custom", layers |-> <<
     LC("input", [shape |-> <<4>>]),
     LC("dropout", EmptyParams),
     LC("dense", [activation |-> "tanh"]) >>]

LoadTemplateInputs == {architectureTemplates[1], userTemplate}

AddLayerInputs ==
  {<<t, Undefined>> : t \in LayerType} \cup
  {<<"dropout", Some([rate |-> Dec(3, 10)])>>,
   <<"dense", Some([units |-> 128])>>,
   <<"dense", Some([units |-> 0, activation |-> "tanh"])>>}

ParamUpdates ==
  {[units |-> 128], [units |-> 0], [activation |-> "tanh"]}

\* an id no layer of the explored histories has: no stream draws 0 there
UnknownLayerId == generateLayerId(0, 0)

LayerIds == {layers[i].id : i \in 1..Len(layers)}

LayerIdInputs == LayerIds \cup {UnknownLayerId}

\* one more store action of the bounded history; `before` keeps the layers
\* and connections the action found and the call that preceded it; `calls`
\* belongs to the direct progress calls further down
Step ==
  /\ ops < MaxOps
  /\ ops' = ops + 1
  /\ now' = now
  /\ before' = [layers |-> layers, connections |-> connections,
                last |-> last]
  /\ calls' = calls

\* `held` is the state tree a subscriber read before the action, as it reads
\* after the action: here an action that assigns to no object of the tree
Counted == Step /\ held' = StoreState

\* Date.now() moves on between two store actions
ClockTick ==
  /\ now < MaxTime
  /\ now' = now + 1
  /\ last' = [op |-> "clockTick", args |-> <<>>]
  /\ UNCHANGED <<storeVars, ops, before, calls, held>>

SetArchitecture ==
  /\ Counted
  /\ \E type \in ArchitectureType, rnd \in RandomStreams :
       setArchitecture(type, rnd)

LoadTemplate ==
  /\ Counted
  /\ \E template \in LoadTemplateInputs, rnd \in RandomStreams :
       loadTemplate(template, rnd)

AddLayer ==
  /\ Step
  /\ held' = [StoreState EXCEPT !.layers = afterAddLayer(layers)]
  /\ \E in \in AddLayerInputs, rnd \in RandomStreams :
       addLayer(in[1], in[2], rnd)

RemoveLayer ==
  /\ Step
  /\ \E layerId \in LayerIdInputs, rnd \in RandomStreams :
       /\ removeLayer(layerId, rnd)
       /\ held' = [StoreState EXCEPT
                     !.layers = afterRemoveLayer(layers, layerId)]

UpdateLayerParams ==
  /\ Counted
  /\ \E layerId \in LayerIdInputs, params \in ParamUpdates :
       updateLayerParams(layerId, params)

\* the indices the callers guarantee: both inside the array
ReorderLayers ==
  /\ Step
  /\ \E fromIndex \in 0..(Len(layers) - 1), toIndex \in 0..(Len(layers) - 1),
        rnd \in RandomStreams :
       /\ reorderLayers(fromIndex, toIndex, rnd)
       /\ held' = [StoreState EXCEPT
                     !.layers = afterReorderLayers(layers, fromIndex, toIndex)]

ClearNetwork == Counted /\ clearNetwork

\* the scene selects and hovers layers it renders, or nothing
SetSelectedLayer ==
  /\ Counted
  /\ \E layerId \in LayerIds \cup {Null} :
       setSelectedLayer(layerId)

SetHoveredLayer ==
  /\ Counted
  /\ \E layerId \in LayerIds \cup {Null} :
       setHoveredLayer(layerId)

Next ==
  \/ ClockTick
  \/ SetArchitecture
  \/ LoadTemplate
  \/ AddLayer
  \/ RemoveLayer
  \/ UpdateLayerParams
  \/ ReorderLayers
  \/ ClearNetwork

Spec == Init /\ [][Next]_vars

\* The store's structural actions called directly: reorderLayers validates
\* nothing, so the indices are any integers; here one below and one past the
\* array as well.
DirectReorderLayers ==
  /\ Step
  /\ \E fromIndex \in (-1)..Len(layers), toIndex \in 0..Len(layers),
        rnd \in RandomStreams :
       /\ reorderLayers(fromIndex, toIndex, rnd)
       /\ held' = [StoreState EXCEPT
                     !.layers = afterReorderLayers(layers, fromIndex, toIndex)]

NextApi ==
  \/ SetArchitecture
  \/ AddLayer
  \/ RemoveLayer
  \/ UpdateLayerParams
  \/ DirectReorderLayers
  \/ ClearNetwork

SpecApi == Init /\ [][NextApi]_vars

\* the structural actions together with the selection actions
NextSel ==
  \/ ClockTick
  \/ SetSelectedLayer
  \/ SetHoveredLayer
  \/ RemoveLayer
  \/ SetArchitecture
  \/ LoadTemplate
  \/ ClearNetwork

SpecSel == Init /\ [][NextSel]_vars

(***************************************************************************)
(* The training panel: the buttons, the epochs slider and the timer        *)
(***************************************************************************)
\* a store action outside the bounded history of structural actions
Free == UNCHANGED <<ops, now, before, calls, held>>

\* the sliders and selects of the hyperparameter section
ConfigUpdates == {[epochs |-> 10], [epochs |-> 20], [batchSize |-> 64]}

StartTraining == Free /\ startTraining

StopTraining == Free /\ stopTraining

ResetTraining == Free /\ resetTraining

UpdateConfig == Free /\ \E partial \in ConfigUpdates : updateConfig(partial)

TrainingTick == Free /\ \E sample \in TickSamples : trainingTick(sample)

NextTrain ==
  \/ StartTraining
  \/ StopTraining
  \/ ResetTraining
  \/ UpdateConfig
  \/ TrainingTick

SpecTrain == Init /\ [][NextTrain]_vars

\* training controls used within a bounded history of store actions
UserStartTraining == Counted /\ startTraining

UserStopTraining == Counted /\ stopTraining

UserResetTraining == Counted /\ resetTraining

\* architecture changes while the training simulation runs
NextLife ==
  \/ UserStartTraining
  \/ UserStopTraining
  \/ UserResetTraining
  \/ TrainingTick
  \/ SetArchitecture
  \/ LoadTemplate

SpecLife == Init /\ [][NextLife]_vars

\* A bounded history of the training controls with the timer running.  While
\* isTraining holds the effect keeps an interval registered, so the callback
\* is not postponed forever.
UserUpdateConfig ==
  Counted /\ \E partial \in ConfigUpdates : updateConfig(partial)

NextRun ==
  \/ UserStartTraining
  \/ UserStopTraining
  \/ UserResetTraining
  \/ UserUpdateConfig
  \/ TrainingTick

SpecRun == Init /\ [][NextRun]_vars /\ WF_vars(TrainingTick)

(***************************************************************************)
(* The training actions called directly, as a caller of the store's API    *)
(* does: any epoch count in the config, any epoch number in a progress     *)
(* call.  Here `calls` counts the updateTrainingProgress calls made since  *)
(* the last resetTraining.                                                 *)
(***************************************************************************)
DirectConfigUpdates == {[epochs |-> 2], [epochs |-> 50]}

\* the next epoch number, or one past every totalEpochs of this history
ProgressEpochs == {calls + 1, 60}

ProgressSamples ==
  {[loss |-> Dec(50, 100), accuracy |-> Dec(80, 100)],
   [loss |-> Dec(10, 100), accuracy |-> Dec(99, 100)]}

DirectResetTraining ==
  /\ calls' = 0
  /\ UNCHANGED <<ops, now, before, held>>
  /\ resetTraining

DirectUpdateTrainingProgress ==
  /\ calls < MaxCalls
  /\ calls' = calls + 1
  /\ UNCHANGED <<ops, now, before, held>>
  /\ \E epoch \in ProgressEpochs, sample \in ProgressSamples :
       updateTrainingProgress(epoch, sample.loss, sample.accuracy)

DirectUpdateConfig ==
  Free /\ \E partial \in DirectConfigUpdates : updateConfig(partial)

NextProgress ==
  \/ DirectResetTraining
  \/ DirectUpdateTrainingProgress
  \/ DirectUpdateConfig
  \/ StartTraining
  \/ StopTraining

SpecProgress == Init /\ [][NextProgress]_vars

(***************************************************************************)
(* Readers of the computed values, next to the actions that change what    *)
(* they read                                                               *)
(***************************************************************************)
\* layers that count towards the parameter total, and one that does not
ReadLayerInputs ==
  {<<"dense", Some([units |-> 10])>>, <<"conv2d", Undefined>>,
   <<"dropout", Undefined>>}

AddReadLayer ==
  /\ Step
  /\ held' = [StoreState EXCEPT !.layers = afterAddLayer(layers)]
  /\ \E in \in ReadLayerInputs, rnd \in RandomStreams :
       addLayer(in[1], in[2], rnd)

\* the optimizer select of the hyperparameter section
ReadConfigUpdates == {[optimizer |-> "rmsprop"], [optimizer |-> "sgd"]}

UpdateReadConfig ==
  Free /\ \E partial \in ReadConfigUpdates : updateConfig(partial)

GetGeneratedCode ==
  /\ Free
  /\ UNCHANGED storeVars
  /\ last' = [op |-> "getGeneratedCode",
              args |-> <<getGeneratedCode(StoreState)>>]

GetTotalParameters ==
  /\ Free
  /\ UNCHANGED storeVars
  /\ last' = [op |-> "getTotalParameters",
              args |-> <<getTotalParameters(StoreState)>>]

NextRead ==
  \/ GetGeneratedCode
  \/ GetTotalParameters
  \/ LoadTemplate
  \/ ClearNetwork
  \/ AddReadLayer
  \/ UpdateReadConfig

SpecRead == Init /\ [][NextRead]_vars

(***************************************************************************)
(* LeftSidebar.tsx: the move-up and move-down buttons of a layer row       *)
(***************************************************************************)
\* handleMoveLayer without the test of toIndex
handleMoveLayerUnchecked(fromIndex, direction, rnd) ==
  LET toIndex == IF direction = "up" THEN fromIndex - 1 ELSE fromIndex + 1
  IN reorderLayers(fromIndex, toIndex, rnd)

\* when the handler calls no store action, `last` names the handler
handleMoveLayer(fromIndex, direction, rnd) ==
  LET toIndex == IF direction = "up" THEN fromIndex - 1 ELSE fromIndex + 1
  IN IF toIndex >= 0 /\ toIndex < Len(layers)
     THEN reorderLayers(fromIndex, toIndex, rnd)
     ELSE /\ UNCHANGED storeVars
          /\ last' = [op |-> "handleMoveLayer",
                      args |-> <<fromIndex, direction>>]

\* the buttons of the rendered rows: one row per layer
HandleMoveLayer ==
  /\ Step
  /\ \E fromIndex \in 0..(Len(layers) - 1), direction \in {"up", "down"},
        rnd \in RandomStreams :
       /\ handleMoveLayer(fromIndex, direction, rnd)
       /\ held' = IF last'.op = "reorderLayers"
                  THEN [StoreState EXCEPT
                          !.layers = afterReorderLayers(layers, last'.args[1],
                                                        last'.args[2])]
                  ELSE StoreState

NextMove ==
  \/ HandleMoveLayer
  \/ LoadTemplate
  \/ RemoveLayer
  \/ ClearNetwork

SpecMove == Init /\ [][NextMove]_vars

(***************************************************************************)
(* The keyboard shortcuts of the toggles (NeuralNetworkVisualizer.tsx),    *)
(* next to actions that change the other aggregates                        *)
(***************************************************************************)
\* a store action outside the bounded history whose caller read the state
\* tree before it
Watched ==
  /\ UNCHANGED <<ops, now, calls>>
  /\ before' = [layers |-> layers, connections |-> connections,
                last |-> last]
  /\ held' = StoreState

ToggleDataFlow == Watched /\ toggleDataFlow

ToggleWeights == Watched /\ toggleWeights

ToggleGradients == Watched /\ toggleGradients

ToggleLeftPanel == Watched /\ toggleLeftPanel

ToggleRightPanel == Watched /\ toggleRightPanel

NextToggle ==
  \/ ToggleDataFlow
  \/ ToggleWeights
  \/ ToggleGradients
  \/ ToggleLeftPanel
  \/ ToggleRightPanel
  \/ SetSelectedLayer
  \/ UserStartTraining
  \/ ClearNetwork

SpecToggle == Init /\ [][NextToggle]_vars

(***************************************************************************)
(* The guided tour: curriculum.ts holds the steps, TourOverlay             *)
(* (NeuralNetworkVisualizer.tsx) shows the current one with its buttons    *)
(***************************************************************************)
\* the ids of the steps of each tour
guidedTours ==
  [perceptron |-> <<"intro", "input", "weights", "bias", "activation",
                    "limitation">>,
   cnn        |-> <<"intro", "input-image", "kernel", "feature-map",
                    "pooling", "flatten", "classification">>]

\* guidedTours[currentArchitecture] || guidedTours.perceptron
tourSteps(architecture) ==
  IF architecture \in DOMAIN guidedTours
  THEN guidedTours[architecture]
  ELSE guidedTours.perceptron

\* tourSteps[ui.currentTourStep]: Undefined outside the array
currentStep ==
  LET steps == tourSteps(currentArchitecture)
  IN IF ui.currentTourStep + 1 \in DOMAIN steps
     THEN Some(steps[ui.currentTourStep + 1])
     ELSE Undefined

\* the overlay returns null unless the tour is active and has a current step
overlayRendered == ui.isTourActive /\ currentStep # Undefined

isLastStep == ui.currentTourStep = Len(tourSteps(currentArchitecture)) - 1

isFirstStep == ui.currentTourStep = 0

\* the Start Tour button of the sidebar and the Ctrl+T shortcut
StartTour == Watched /\ startTour

\* the Escape key
EscapeTour == Watched /\ ui.isTourActive /\ endTour

SkipTour == Watched /\ overlayRendered /\ endTour

PreviousTourStep ==
  Watched /\ overlayRendered /\ ~isFirstStep /\ previousTourStep

\* one button: Finish on the last step, Next otherwise
NextOrFinishTour ==
  /\ Watched
  /\ overlayRendered
  /\ IF isLastStep THEN endTour ELSE nextTourStep

NextTour ==
  \/ StartTour
  \/ EscapeTour
  \/ SkipTour
  \/ PreviousTourStep
  \/ NextOrFinishTour
  \/ SetArchitecture
  \/ AddLayer
  \/ RemoveLayer

SpecTour == Init /\ [][NextTour]_vars

(***************************************************************************)
(* Properties                                                              *)
(***************************************************************************)
LayerTypes(ls) == [i \in 1..Len(ls) |-> ls[i].type]

\* C1: in every reachable state of the structural actions, with N layers,
\* there are exactly max(0, N-1) connections, and connection i runs from
\* the layer at index i to the layer at index i+1 and has the id
\* conn_<fromLayerId>_<toLayerId>.
C1_ConnectionsFollowLayers ==
  /\ Len(connections) = IF Len(layers) >= 1 THEN Len(layers) - 1 ELSE 0
  /\ \A i \in 1..Len(connections) :
       /\ connections[i].fromLayerId = layers[i].id
       /\ connections[i].toLayerId = layers[i + 1].id
       /\ connections[i].id =
            <<"conn", connections[i].fromLayerId, connections[i].toLayerId>>

\* a reorder that moved a layer of a list of at least three layers, after
\* an earlier action
C1_Witness ==
  /\ last.op = "reorderLayers"
  /\ last.args[1] # last.args[2]
  /\ Len(layers) >= 3
  /\ ops = MaxOps

\* C2: in every reachable state of the structural actions, for N layers and
\* spacing 3, the layer at 0-based index i has x = -((N-1)*3)/2 + i*3 and
\* y = z = 0 (the model keeps coordinates in halves, so 2x is compared).
C2_PositionsSymmetric ==
  LET S == 3
      N == Len(layers)
  IN \A i \in 0..(N - 1) :
       /\ layers[i + 1].position.x = (i * S * 2) - ((N - 1) * S)
       /\ layers[i + 1].position.y = 0
       /\ layers[i + 1].position.z = 0

\* a layer was appended to, or removed from, a list that keeps two or more
\* layers, so every remaining layer had to move
C2_Witness ==
  /\ last.op \in {"addLayer", "removeLayer"}
  /\ Len(layers) >= 2
  /\ layers[1].position.x # -((Len(initialTemplate.layers) - 1) * spacing)

\* C3: after setArchitecture(t) with a registered t the layer list has the
\* template's length and layer types in order, none of the layer ids
\* present before the call is present after it, and currentArchitecture is t.
C3_SetArchitectureReplaces ==
  [][(last'.op = "setArchitecture"
      /\ FindTemplate(last'.args[1]) # Undefined)
     => LET t == last'.args[1]
            template == FindTemplate(t)[1]
        IN /\ Len(layers') = Len(template.layers)
           /\ \A i \in 1..Len(template.layers) :
                layers'[i].type = template.layers[i].type
           /\ {layers'[i].id : i \in 1..Len(layers')} \cap LayerIds = {}
           /\ currentArchitecture' = t]_vars

\* C4: addLayer(t, p) on N layers yields N+1 layers: the first N are the
\* previous layers with the same ids, types and params, the last has type t
\* and the defaults of t overridden key by key by p; currentArchitecture is
\* 'custom' and there are N connections.  From the initial state (input,
\* dense 64, dense 32, dense 1, 'mlp') addLayer('dropout', {rate: 0.3}) gives
\* 5 layers, the last a dropout with rate 0.3, and 4 connections.
C4_AddLayerAppends ==
  [][(last'.op = "addLayer")
     => LET t == last'.args[1]
            p == last'.args[2]
            N == Len(layers)
            d == getDefaultParams(t)
            new == layers'[N + 1]
        IN /\ Len(layers') = N + 1
           /\ \A i \in 1..N :
                /\ layers'[i].id = layers[i].id
                /\ layers'[i].type = layers[i].type
                /\ layers'[i].params = layers[i].params
           /\ new.type = t
           /\ IF p = Undefined
              THEN new.params = d
              ELSE /\ DOMAIN new.params = (DOMAIN d) \cup (DOMAIN p[1])
                   /\ \A k \in DOMAIN p[1] : new.params[k] = p[1][k]
                   /\ \A k \in (DOMAIN d) \ (DOMAIN p[1]) :
                        new.params[k] = d[k]
           /\ currentArchitecture' = "custom"
           /\ Len(connections') = N
           /\ (ops = 0) =>
                /\ currentArchitecture = "mlp"
                /\ LayerTypes(layers) = <<"input", "dense", "dense", "dense">>
                /\ <<layers[2].params.units, layers[3].params.units,
                     layers[4].params.units>> = <<64, 32, 1>>
                /\ (t = "dropout" /\ p = Some([rate |-> Dec(3, 10)])) =>
                     /\ Len(layers') = 5
                     /\ layers'[5].type = "dropout"
                     /\ layers'[5].params.rate = Dec(3, 10)
                     /\ Len(connections') = 4]_vars

\* the scenario of the claim: a dropout with rate 0.3 added to the default MLP
C4_Witness ==
  /\ last.op = "addLayer"
  /\ last.args = <<"dropout", Some([rate |-> Dec(3, 10)])>>
  /\ ops = 1
  /\ Len(layers) = 5
  /\ layers[5].params.rate = Dec(3, 10)

\* C5: in every reachable state selectedLayerId and hoveredLayerId are each
\* null or the id of a layer of the layer collection.
C5_SelectionRefersToLayer ==
  /\ visualization.selectedLayerId \in LayerIds \cup {Null}
  /\ visualization.hoveredLayerId \in LayerIds \cup {Null}

\* C6: removeLayer(id) with an id no layer has leaves the layers, the
\* connections and currentArchitecture as they were.
C6_RemoveUnknownIsNoOp ==
  [][(last'.op = "removeLayer" /\ last'.args[1] \notin LayerIds)
     => /\ layers' = layers
        /\ connections' = connections
        /\ currentArchitecture' = currentArchitecture]_vars

\* C7: setArchitecture(type) with a type the registry has no template for
\* changes no field of the store.
C7_UnknownArchitectureIsNoOp ==
  [][(last'.op = "setArchitecture"
      /\ FindTemplate(last'.args[1]) = Undefined)
     => UNCHANGED storeVars]_vars

\* setArchitecture('custom') was called after the network had been edited
C7_Witness ==
  /\ last.op = "setArchitecture"
  /\ last.args = <<"custom">>
  /\ FindTemplate("custom") = Undefined
  /\ ops = MaxOps
  /\ currentArchitecture # "custom"

\* C8: under the training buttons, the epochs slider and the simulation
\* tick, training.currentEpoch never exceeds training.totalEpochs.
C8_EpochWithinTotal == training.currentEpoch <= training.totalEpochs

\* the tick found the epoch count at a ceiling taken from a changed config
\* and stopped the training
C8_Witness ==
  /\ last.op = "trainingTick"
  /\ last.args[1] > training.totalEpochs
  /\ training.currentEpoch = training.totalEpochs
  /\ training.totalEpochs # initialTraining.totalEpochs
  /\ ~training.isTraining

\* C9: after setArchitecture with a registered type, or loadTemplate, the
\* training state is the one resetTraining leaves: not training, epoch 0,
\* loss 0, accuracy 0, empty histories.
C9_ArchitectureChangeResetsTraining ==
  [][((last'.op = "setArchitecture"
       /\ FindTemplate(last'.args[1]) # Undefined)
      \/ last'.op = "loadTemplate")
     => /\ ~training'.isTraining
        /\ training'.currentEpoch = 0
        /\ training'.loss = Dec(0, 1)
        /\ training'.accuracy = Dec(0, 1)
        /\ training'.lossHistory = <<>>
        /\ training'.accuracyHistory = <<>>]_vars

\* C10: updateLayerParams(id, p) on an existing id gives that layer its
\* previous params with the keys of p replaced by the values of p; keys not
\* in p keep their values ({units: 64, activation: 'relu'} with {units: 128}
\* gives {units: 128, activation: 'relu'}); other layers keep their params.
C10_UpdateMergesParams ==
  [][(last'.op = "updateLayerParams" /\ last'.args[1] \in LayerIds)
     => LET id == last'.args[1]
            p == last'.args[2]
        IN /\ Len(layers') = Len(layers)
           /\ \A i \in 1..Len(layers) :
                IF layers[i].id = id
                THEN /\ DOMAIN layers'[i].params =
                          (DOMAIN layers[i].params) \cup (DOMAIN p)
                     /\ \A k \in DOMAIN p : layers'[i].params[k] = p[k]
                     /\ \A k \in (DOMAIN layers[i].params) \ (DOMAIN p) :
                          layers'[i].params[k] = layers[i].params[k]
                     /\ (layers[i].params = [units |-> 64,
                                             activation |-> "relu"]
                         /\ p = [units |-> 128])
                        => layers'[i].params = [units |-> 128,
                                                activation |-> "relu"]
                ELSE layers'[i].params = layers[i].params]_vars

\* {units: 128} was merged into a dense layer that keeps its activation,
\* next to a layer with another id that keeps its params
C10_Witness ==
  /\ last.op = "updateLayerParams"
  /\ last.args[2] = [units |-> 128]
  /\ \E i \in 1..Len(layers) :
       /\ layers[i].id = last.args[1]
       /\ layers[i].params = [units |-> 128, activation |-> "relu"]
  /\ \E i \in 1..Len(layers) : layers[i].id # last.args[1]

\* C11: updateLayerParams(id, p) keeps the order of the layers, every
\* layer's id, type, name and position, the connections (ids, endpoints and
\* weights) and currentArchitecture; when no layer has the id, no field of the
\* store changes.
C11_UpdateKeepsStructure ==
  [][(last'.op = "updateLayerParams")
     => /\ Len(layers') = Len(layers)
        /\ \A i \in 1..Len(layers) :
             /\ layers'[i].id = layers[i].id
             /\ layers'[i].type = layers[i].type
             /\ layers'[i].name = layers[i].name
             /\ layers'[i].position = layers[i].position
        /\ connections' = connections
        /\ currentArchitecture' = currentArchitecture
        /\ (last'.args[1] \notin LayerIds) => UNCHANGED storeVars]_vars

\* the units of a layer of a registered architecture were edited: the
\* params changed, the architecture type and the connections are still there
C11_Witness ==
  /\ last.op = "updateLayerParams"
  /\ last.args[1] \in LayerIds
  /\ last.args[2] = [units |-> 128]
  /\ currentArchitecture \in {"mlp", "perceptron"}
  /\ Len(connections) >= 1
  /\ \E i \in 1..Len(layers) :
       layers[i].id = last.args[1] /\ layers[i].neurons = Some(128)

\* C12: after updateLayerParams(id, p) on an existing layer with a units key
\* in p (any number, 0 included), the neurons field of the layer is p.units.
C12_NeuronsFollowUnits ==
  [][(last'.op = "updateLayerParams"
      /\ last'.args[1] \in LayerIds
      /\ "units" \in DOMAIN last'.args[2])
     => \A i \in 1..Len(layers') :
          (layers'[i].id = last'.args[1])
            => layers'[i].neurons = Some(last'.args[2]["units"])]_vars

\* C13: for N layers and fromIndex, toIndex in [0, N), reorderLayers takes
\* the element at fromIndex out and puts it at index toIndex; the other layers
\* keep their relative order (a move of one element, not a swap), the ids
\* after the call are a permutation of the ids before it, and
\* currentArchitecture is unchanged.
C13_ReorderMovesOne ==
  [][(last'.op = "reorderLayers")
     => LET fromIndex == last'.args[1]
            toIndex == last'.args[2]
            N == Len(layers)
            Strip(ls) == [i \in 1..Len(ls) |-> [ls[i] EXCEPT !.position = 0]]
            Drop(ls, k) ==
              [i \in 1..(Len(ls) - 1) |-> IF i < k THEN ls[i] ELSE ls[i + 1]]
            Count(ls, id) == Cardinality({i \in 1..Len(ls) : ls[i].id = id})
        IN /\ Len(layers') = N
           /\ Strip(layers')[toIndex + 1] = Strip(layers)[fromIndex + 1]
           /\ Drop(Strip(layers'), toIndex + 1) =
                Drop(Strip(layers), fromIndex + 1)
           /\ \A i \in 1..N :
                Count(layers', layers[i].id) = Count(layers, layers[i].id)
           /\ currentArchitecture' = currentArchitecture]_vars

\* a layer was moved over two or more layers of a registered architecture,
\* where a swap would have given another order
C13_Witness ==
  /\ last.op = "reorderLayers"
  /\ last.args[1] + 2 <= last.args[2]
  /\ currentArchitecture # "custom"
  /\ layers[last.args[2] + 1].id = before.layers[last.args[1] + 1].id
  /\ layers[last.args[1] + 1].id # before.layers[last.args[2] + 1].id

\* C14: for adjacent in-range indices i, j, reorderLayers(i, j) followed by
\* reorderLayers(j, i) gives back the layer order, the positions and the
\* connection endpoints that were there before the first call.
C14_AdjacentMoveAndBack ==
  [][(/\ last.op = "reorderLayers"
      /\ last'.op = "reorderLayers"
      /\ last'.args = <<last.args[2], last.args[1]>>
      /\ last.args[1] - last.args[2] \in {1, -1})
     => /\ Len(layers') = Len(before.layers)
        /\ \A i \in 1..Len(layers') :
             /\ layers'[i].id = before.layers[i].id
             /\ layers'[i].position = before.layers[i].position
        /\ Len(connections') = Len(before.connections)
        /\ \A i \in 1..Len(connections') :
             /\ connections'[i].fromLayerId =
                  before.connections[i].fromLayerId
             /\ connections'[i].toLayerId = before.connections[i].toLayerId
       ]_vars

\* index 1 was moved to 0 and then index 0 to 1 (or the mirror image), and
\* both calls changed the order of the ids
C14_Witness ==
  /\ last.op = "reorderLayers"
  /\ before.last.op = "reorderLayers"
  /\ last.args = <<before.last.args[2], before.last.args[1]>>
  /\ last.args[1] - last.args[2] \in {1, -1}
  /\ layers[last.args[1] + 1].id # layers[last.args[2] + 1].id
  /\ layers[last.args[1] + 1].id = before.layers[last.args[2] + 1].id

\* C15: removeLayer(id) with the id of an existing layer leaves every other
\* layer exactly once and in the previous relative order, leaves no layer
\* with that id, shortens the list by exactly one and sets
\* currentArchitecture to 'custom'.
C15_RemoveTakesOne ==
  [][(last'.op = "removeLayer" /\ last'.args[1] \in LayerIds)
     => LET id == last'.args[1]
            Strip(ls) == [i \in 1..Len(ls) |-> [ls[i] EXCEPT !.position = 0]]
        IN /\ Len(layers') = Len(layers) - 1
           /\ \A i \in 1..Len(layers') : layers'[i].id # id
           /\ \E k \in 1..Len(layers) :
                /\ layers[k].id = id
                /\ Strip(layers') =
                     [i \in 1..(Len(layers) - 1) |->
                        IF i < k THEN Strip(layers)[i]
                        ELSE Strip(layers)[i + 1]]
           /\ currentArchitecture' = "custom"]_vars

\* C16: in every reachable state the layers of the layer collection have
\* pairwise distinct ids.
C16_LayerIdsDistinct ==
  \A i, j \in 1..Len(layers) : (layers[i].id = layers[j].id) => (i = j)

\* C17: after k updateTrainingProgress(epoch, loss, accuracy) calls since a
\* resetTraining, lossHistory and accuracyHistory have length exactly k; each
\* call appends its loss and accuracy as the last element and keeps the
\* earlier elements as a prefix, and currentEpoch, loss and accuracy are the
\* arguments of the call, also when k or epoch is greater than totalEpochs.
C17_ProgressAppends ==
  [][/\ Len(training'.lossHistory) = calls'
     /\ Len(training'.accuracyHistory) = calls'
     /\ (last'.op = "updateTrainingProgress")
          => LET epoch == last'.args[1]
                 loss == last'.args[2]
                 accuracy == last'.args[3]
                 k == calls'
             IN /\ SubSeq(training'.lossHistory, 1, k - 1) =
                     training.lossHistory
                /\ training'.lossHistory[k] = loss
                /\ SubSeq(training'.accuracyHistory, 1, k - 1) =
                     training.accuracyHistory
                /\ training'.accuracyHistory[k] = accuracy
                /\ training'.currentEpoch = epoch
                /\ training'.loss = loss
                /\ training'.accuracy = accuracy
    ]_vars

\* more calls than totalEpochs after a reset, the last with an epoch number
\* past totalEpochs, and histories holding different entries
C17_Witness ==
  /\ last.op = "updateTrainingProgress"
  /\ calls = MaxCalls
  /\ calls > training.totalEpochs
  /\ training.currentEpoch > training.totalEpochs
  /\ Len(training.lossHistory) = MaxCalls
  /\ training.lossHistory[1] # training.lossHistory[MaxCalls]

\* C18: resetTraining leaves isTraining false, currentEpoch 0, loss 0,
\* accuracy 0, empty histories and totalEpochs equal to config.epochs at the
\* moment of the call; updateConfig never changes training.totalEpochs, and
\* neither does any other step, so totalEpochs is config.epochs as of the last
\* resetTraining (or the initial 100).
C18_ResetTakesConfigEpochs ==
  [][/\ (last'.op = "resetTraining")
          => /\ training' =
                  [isTraining |-> FALSE, currentEpoch |-> 0,
                   totalEpochs |-> config.epochs,
                   loss |-> Dec(0, 1), accuracy |-> Dec(0, 1),
                   lossHistory |-> <<>>, accuracyHistory |-> <<>>]
             /\ config' = config
     /\ (last'.op = "updateConfig") => training' = training
     /\ (last'.op # "resetTraining")
          => training'.totalEpochs = training.totalEpochs
    ]_vars

\* the epochs slider was moved after a reset had taken another epochs value:
\* the ceiling is still the one of the reset
C18_Witness ==
  /\ last.op = "updateConfig"
  /\ "epochs" \in DOMAIN last.args[1]
  /\ config.epochs = last.args[1]["epochs"]
  /\ training.totalEpochs # config.epochs
  /\ training.totalEpochs # initialTraining.totalEpochs

\* C19: startTraining sets training.isTraining to true and stopTraining sets
\* it to false; currentEpoch, totalEpochs, loss, accuracy, both histories,
\* layers, connections, config, visualization and ui are unchanged by either.
C19_StartStopFlipFlagOnly ==
  [][(last'.op \in {"startTraining", "stopTraining"})
     => /\ training'.isTraining = (last'.op = "startTraining")
        /\ training'.currentEpoch = training.currentEpoch
        /\ training'.totalEpochs = training.totalEpochs
        /\ training'.loss = training.loss
        /\ training'.accuracy = training.accuracy
        /\ training'.lossHistory = training.lossHistory
        /\ training'.accuracyHistory = training.accuracyHistory
        /\ DOMAIN training' = DOMAIN training
        /\ UNCHANGED <<layers, connections, config, visualization, ui>>
    ]_vars

\* a training run with recorded epochs was stopped before its ceiling
C19_Witness ==
  /\ last.op = "stopTraining"
  /\ ~training.isTraining
  /\ training.currentEpoch >= 2
  /\ training.currentEpoch < training.totalEpochs
  /\ Len(training.lossHistory) = training.currentEpoch

\* C20: clearNetwork leaves layers and connections empty and
\* currentArchitecture 'custom', and leaves training, config, visualization
\* (selectedLayerId and hoveredLayerId included) and ui as they were.
C20_ClearKeepsTheRest ==
  [][(last'.op = "clearNetwork")
     => /\ layers' = <<>>
        /\ connections' = <<>>
        /\ currentArchitecture' = "custom"
        /\ UNCHANGED <<training, config, visualization, ui>>]_vars

\* the network was cleared while a layer was selected; the selection stays
C20_Witness ==
  /\ last.op = "clearNetwork"
  /\ layers = <<>>
  /\ visualization.selectedLayerId # Null
  /\ visualization.selectedLayerId \in
       {before.layers[i].id : i \in 1..Len(before.layers)}

\* C21: getTotalParameters is the sum, over the dense and conv2d layers in
\* list order, of prev*units + units for a dense layer and of
\* kernel_size*kernel_size*prev*filters + filters for a conv2d layer, where
\* prev is the units or filters of the nearest dense or conv2d layer before
\* it, or 784 when there is none; other layer types add nothing and leave
\* prev as it is.  A single dense layer with units = 10 gives 7850.
C21_TotalParametersIsFold ==
  (last.op = "getTotalParameters")
    => LET N == Len(layers)
           Weighted(i) == layers[i].type \in {"dense", "conv2d"}
           Width(i) == IF layers[i].type = "dense"
                       THEN layers[i].params["units"]
                       ELSE layers[i].params["filters"]
           Earlier(i) == {j \in 1..(i - 1) : Weighted(j)}
           Prev(i) == IF Earlier(i) = {} THEN 784
                      ELSE Width(CHOOSE j \in Earlier(i) :
                                   \A k \in Earlier(i) : k <= j)
           Adds(i) ==
             IF layers[i].type = "dense"
             THEN Prev(i) * Width(i) + Width(i)
             ELSE IF layers[i].type = "conv2d"
             THEN layers[i].params["kernel_size"]
                    * layers[i].params["kernel_size"] * Prev(i) * Width(i)
                  + Width(i)
             ELSE 0
           RECURSIVE SumTo(_)
           SumTo(i) == IF i = 0 THEN 0 ELSE SumTo(i - 1) + Adds(i)
       IN /\ last.args[1] = SumTo(N)
          /\ (N = 1 /\ layers[1].type = "dense"
                    /\ layers[1].params["units"] = 10)
               => last.args[1] = 7850

\* the total was read for the single dense layer with 10 units
C21_Witness ==
  /\ last.op = "getTotalParameters"
  /\ Len(layers) = 1
  /\ layers[1].type = "dense"
  /\ layers[1].params["units"] = 10
  /\ last.args[1] = 7850

\* C22: getGeneratedCode changes no store field; two calls with no action in
\* between return the same string; and the string is the one returned for
\* any store state with the same layers and config, whatever its training,
\* visualization, ui, connections and currentArchitecture.
C22_GeneratedCodeReadsLayersAndConfig ==
  [][(last'.op = "getGeneratedCode")
     => /\ UNCHANGED storeVars
        /\ (last.op = "getGeneratedCode") => last'.args = last.args
        /\ \A a \in ArchitectureType,
              c \in {connections, <<>>},
              t \in {training, initialTraining,
                     [training EXCEPT !.isTraining = ~training.isTraining]},
              v \in {visualization,
                     [visualization EXCEPT !.showWeights = TRUE,
                                           !.selectedLayerId = UnknownLayerId]},
              u \in {ui, [ui EXCEPT !.rightPanelTab = "code",
                                    !.theme = "light"]} :
             getGeneratedCode([StoreState EXCEPT
                                 !.currentArchitecture = a,
                                 !.connections = c,
                                 !.training = t,
                                 !.visualization = v,
                                 !.ui = u]) = last'.args[1]]_vars

\* the code was read for an edited network, with another optimizer than the
\* initial one; it differs from the code of the state before the edit
C22_Witness ==
  /\ last.op = "getGeneratedCode"
  /\ last.args[1] = getGeneratedCode(StoreState)
  /\ last.args[1] # getGeneratedCode(held)
  /\ config.optimizer # initialConfig.optimizer
  /\ currentArchitecture = "custom"
  /\ Len(layers) >= 2

\* C23: one call of toggleDataFlow, toggleWeights, toggleGradients,
\* toggleLeftPanel or toggleRightPanel negates that toggle's boolean and
\* changes nothing else (no field of layers, connections, training, config or
\* currentArchitecture); a second call in a row gives back the complete
\* store state that held before the first call.
C23_ToggleTwiceRestores ==
  [][(last'.op \in {"toggleDataFlow", "toggleWeights", "toggleGradients",
                    "toggleLeftPanel", "toggleRightPanel"})
     => /\ StoreState' =
             CASE last'.op = "toggleDataFlow" ->
                    [StoreState EXCEPT !.visualization.showDataFlow = ~@]
               [] last'.op = "toggleWeights" ->
                    [StoreState EXCEPT !.visualization.showWeights = ~@]
               [] last'.op = "toggleGradients" ->
                    [StoreState EXCEPT !.visualization.showGradients = ~@]
               [] last'.op = "toggleLeftPanel" ->
                    [StoreState EXCEPT !.ui.leftPanelOpen = ~@]
               [] last'.op = "toggleRightPanel" ->
                    [StoreState EXCEPT !.ui.rightPanelOpen = ~@]
        /\ UNCHANGED <<layers, connections, training, config,
                       currentArchitecture>>
        /\ (last.op = last'.op) => StoreState' = held]_vars

\* toggleWeights was called twice in a row in a state with a selection and a
\* running training, and the weights are hidden as before the first call
C23_Witness ==
  /\ last.op = "toggleWeights"
  /\ before.last.op = "toggleWeights"
  /\ ~visualization.showWeights
  /\ held.visualization.showWeights
  /\ visualization.selectedLayerId # Null
  /\ training.isTraining

\* C24: the move-up/move-down handler calls reorderLayers only with
\* fromIndex and toIndex both in [0, layers.length) and differing by exactly
\* one; moving the first layer up or the last layer down calls no store
\* action and leaves the state unchanged.
C24_MoveHandlerStaysInRange ==
  [][/\ (last'.op = "reorderLayers")
          => /\ last'.args[1] \in 0..(Len(layers) - 1)
             /\ last'.args[2] \in 0..(Len(layers) - 1)
             /\ last'.args[1] - last'.args[2] \in {1, -1}
     /\ (last'.op = "handleMoveLayer")
          => /\ UNCHANGED storeVars
             /\ \/ last'.args = <<0, "up">>
                \/ last'.args = <<Len(layers) - 1, "down">>
    ]_vars

\* the last layer of an edited network of two or more layers was moved down
C24_Witness ==
  /\ last.op = "handleMoveLayer"
  /\ last.args = <<Len(layers) - 1, "down">>
  /\ Len(layers) >= 2
  /\ currentArchitecture = "custom"
  /\ StoreState = held

\* C25: when training was started (with currentEpoch <= totalEpochs) and only
\* the simulation tick runs afterwards, isTraining eventually becomes false,
\* in a state with currentEpoch = totalEpochs; a tick that records an epoch
\* advances currentEpoch by exactly one and records no epoch greater than
\* totalEpochs.
C25_TrainingRunsToCeiling ==
  /\ (training.isTraining /\ ops = MaxOps
        /\ training.currentEpoch <= training.totalEpochs)
       ~> (~training.isTraining
            /\ training.currentEpoch = training.totalEpochs)
  /\ [][(last'.op = "trainingTick")
        => \/ /\ training'.currentEpoch = training.currentEpoch + 1
              /\ training'.currentEpoch <= training.totalEpochs
              /\ training'.isTraining
           \/ /\ training'.currentEpoch = training.currentEpoch
              /\ training.currentEpoch = training.totalEpochs
              /\ ~training'.isTraining]_vars

\* after the last user action the timer recorded every epoch up to the
\* ceiling and then stopped the run
C25_Witness ==
  /\ last.op = "trainingTick"
  /\ ops = MaxOps
  /\ ~training.isTraining
  /\ training.currentEpoch = training.totalEpochs
  /\ Len(training.lossHistory) = training.totalEpochs

\* C28: when updateTrainingProgress is called by the simulation tick only
\* (next to startTraining, stopTraining, resetTraining and updateConfig),
\* lossHistory and accuracyHistory have the same length, and that length is
\* training.currentEpoch.
C28_HistoryLengthIsEpoch ==
  /\ Len(training.lossHistory) = Len(training.accuracyHistory)
  /\ Len(training.lossHistory) = training.currentEpoch

\* epochs were recorded after a reset that took its ceiling from a changed
\* config
C28_Witness ==
  /\ last.op = "trainingTick"
  /\ training.isTraining
  /\ training.totalEpochs # initialTraining.totalEpochs
  /\ training.currentEpoch >= 3
  /\ Len(training.accuracyHistory) = training.currentEpoch

\* C26: a reorderLayers(fromIndex, toIndex) call with fromIndex outside
\* [0, N) leaves the layer order, every layer's position, the connections
\* and currentArchitecture as they were before the call.
C26_RejectedReorderChangesNothing ==
  [][(last'.op = "reorderLayers"
       /\ last'.args[1] \notin 0..(Len(layers) - 1))
      => /\ layers' = layers
         /\ connections' = connections
         /\ currentArchitecture' = currentArchitecture]_vars

\* the layer types of a registered template, in its order
TemplateTypes(type) ==
  LET template == FindTemplate(type)[1]
  IN [i \in 1..Len(template.layers) |-> template.layers[i].type]

\* how often each type occurs in a sequence of types
TypeCount(types) ==
  [t \in {types[i] : i \in DOMAIN types}
     |-> Cardinality({i \in DOMAIN types : types[i] = t})]

\* C27 as stated: whenever currentArchitecture names a registered template,
\* the sequence of layer types equals the template's sequence of layer types.
C27_TypesFollowTemplate ==
  FindTemplate(currentArchitecture) # Undefined
    => LayerTypes(layers) = TemplateTypes(currentArchitecture)

\* C27: whenever currentArchitecture names a registered template, the
\* layer types are a rearrangement of the template's layer types: the same
\* number of layers and each type as often as in the template (reorderLayers
\* moves layers and keeps currentArchitecture).
C27_TypesRearrangeTemplate ==
  FindTemplate(currentArchitecture) # Undefined
    => /\ Len(layers) = Len(TemplateTypes(currentArchitecture))
       /\ TypeCount(LayerTypes(layers))
            = TypeCount(TemplateTypes(currentArchitecture))

\* a template's layers were moved: the architecture still names the template
\* and the types are in another order than the template's
C27_Witness ==
  /\ last.op = "reorderLayers"
  /\ currentArchitecture = "cnn"
  /\ LayerTypes(layers) # TemplateTypes("cnn")
  /\ LayerTypes(layers)[1] # "input"

\* C30: the state tree read before addLayer, removeLayer or reorderLayers
\* is not altered by the action: its layers read the same afterwards, each
\* with the position it had when the tree was read.
C30_SnapshotKeepsPositions ==
  [][(last'.op \in {"addLayer", "removeLayer", "reorderLayers"})
      => held'.layers = layers]_vars

\* C29: whenever ui.isTourActive is true, ui.currentTourStep is a valid
\* index (0 <= step < length) into the tour step list shown for the current
\* architecture; currentTourStep is never negative.
C29_TourStepIsValid ==
  /\ ui.currentTourStep >= 0
  /\ ui.isTourActive
       => ui.currentTourStep < Len(tourSteps(currentArchitecture))

====
